---- MODULE Spec2Model ----
(***************************************************************************)
(* rss2telegram: one cloud-function invocation (RSS2Telegram) fetches a    *)
(* feed, reads the stored watermark of the (chat, feed) pair, posts every  *)
(* item published after it and writes the new watermark.                   *)
(*                                                                         *)
(* Time instants are integers; ZeroTime is Go's time.Time{}.  A *time.Time *)
(* is a sequence: << >> is nil, <<t>> points to t.  The Firestore          *)
(* collection "chats" is a function from chat id to document.  The store  *)
(* is taken to return a timestamp exactly as it was written.               *)
(***************************************************************************)
EXTENDS Integers, Sequences, FiniteSets, TLC

\* ---------------------------------------------------------------- bounds
MaxItems == 2
MaxTime == 2
MaxRuns == 2
MaxConcItems == 1

\* ------------------------------------------------------------ value sets
Procs == {1, 2}
SeqProcs == {1}

ZeroTime == 0
Times == ZeroTime..MaxTime
NilTime == << >>
Pointers == {NilTime} \cup {<<t>> : t \in Times}

Titles == {"title"}
Contents == {"<b>body</b>"}
Items == [Title : Titles, Content : Contents, PublishedParsed : Pointers]
Feeds == UNION {[1..n -> Items] : n \in 0..MaxItems}

FeedURLs == {"u1", "u2"}
Chats == {"c1", "c2"}

\* a field of the document: absent, a timestamp, or a value of another type
NoField == [kind |-> "absent", t |-> 0]
BadField == [kind |-> "other", t |-> 0]
TimeField(t) == [kind |-> "time", t |-> t]
NoDoc == [exists |-> FALSE, publishedAt |-> [u \in FeedURLs |-> NoField]]

NoEnv == [RSS_FEED_URL |-> "", TELEGRAM_BOT_API_TOKEN |-> "", TELEGRAM_CHAT_ID |-> ""]
NoSend == [text |-> << >>, chat_id |-> "", convErr |-> FALSE, err |-> FALSE]
NoPrev == [valid |-> FALSE, feed |-> << >>, publishedAt |-> ZeroTime,
           attempts |-> << >>, failed |-> {}, ret |-> "none", wrote |-> FALSE,
           newPublishedAt |-> ZeroTime]

VARIABLES
    store,          \* Firestore: chat id -> document
    env,            \* per instance: the three environment variables
    pc,             \* per invocation: position in RSS2Telegram
    feed,           \* feed.Items as parsed by this invocation
    publishedAt,    \* the watermark this invocation read
    newPublishedAt, \* the running new watermark
    i,              \* loop index (1-based; 0 = loop finished)
    ret,            \* what the invocation returned
    attempts,       \* indices of the items handed to sendToTelegram, in order
    failed,         \* indices whose sendToTelegram returned an error
    calls,          \* external calls made by this invocation, in order
    lastSend,       \* the last message built by sendToTelegram, and whether it failed
    storeAtStart,   \* the store when the invocation began
    prev,           \* summary of the previous invocation on the same feed
    runs,           \* invocations started
    getCode         \* the status code doc.Get answered to readPublishedAt

vars == <<store, env, pc, feed, publishedAt, newPublishedAt, i, ret, attempts,
          failed, calls, lastSend, storeAtStart, prev, runs, getCode>>

\* --------------------------------------------------------- pure functions

\* After written as "not before": an item published exactly at u passes
AfterOrEqual(t, u) == t >= u

\* After with the comparison turned round
Before(t, u) == t < u

\* time.Time.After
After(t, u) == t > u

\* the test before the write left out: the write is always issued
NeverZero(t) == FALSE

\* time.Time.IsZero
IsZero(t) == t = ZeroTime

\* the two skip tests of the loop body: the item is handed to sendToTelegram
\* only when neither applies
HasNoPublished(item) == item.PublishedParsed = NilTime

NotAfterPrevious(item, at) == ~After(item.PublishedParsed[1], at)

\* the loop condition written 0 < i: the first item of the feed is left out
LoopFinishedEarly(k) == k < 2

\* the loop condition 0 <= i fails (indices are 1-based here)
LoopFinished(k) == k < 1

\* break instead of continue on an item without a publish time
NoPublishedBreak(k) == 0

\* continue on an item without a publish time, then the loop's i--
NoPublishedContinue(k) == k - 1

\* continue on an item not after the previous publish time, then the loop's i--
NotAfterContinue(k) == k - 1

\* a sendToTelegram error ends the loop
BreakOnSendError(k, sendErr) == IF sendErr THEN 0 ELSE k - 1

\* a sendToTelegram error is logged and the loop goes on with i--
\* a failed delivery is tried again
RetryOnSendError(k, sendErr) == IF sendErr THEN k ELSE k - 1

AfterSendIndex(k, sendErr) == k - 1

\* the loop as a function of the parsed feed and the watermark read: the
\* items handed to sendToTelegram from index k down, in order
RECURSIVE SentFrom(_, _, _)
SentFrom(f, at, k) ==
    IF LoopFinished(k) THEN << >>
    ELSE IF HasNoPublished(f[k]) THEN SentFrom(f, at, NoPublishedContinue(k))
    ELSE IF NotAfterPrevious(f[k], at) THEN SentFrom(f, at, NotAfterContinue(k))
    ELSE <<f[k]>> \o SentFrom(f, at, AfterSendIndex(k, FALSE))

\* newPublishedAt after the loop
NewPublishedAtOf(f, at) ==
    LET sent == SentFrom(f, at, Len(f))
    IN  IF sent = << >> THEN ZeroTime ELSE sent[Len(sent)].PublishedParsed[1]

\* the three environment checks, in the order of the code
ConfigError(e) ==
    IF e.RSS_FEED_URL = "" THEN "errFeedURL"
    ELSE IF e.TELEGRAM_BOT_API_TOKEN = "" THEN "errToken"
    ELSE IF e.TELEGRAM_CHAT_ID = "" THEN "errChatID"
    ELSE "none"

\* the status code of doc.Get; Unavailable stands for every code that is
\* neither OK nor NotFound
GetCode(st, chatID, backendErr) ==
    IF backendErr THEN "Unavailable"
    ELSE IF ~st[chatID].exists THEN "NotFound"
    ELSE "OK"

\* NotFound not told apart from the other errors
ReadFailsOnNotFound(code) == code # "OK"

\* readPublishedAt returns the error of doc.Get unless its code is NotFound
ReadFails(code) == code # "NotFound" /\ code # "OK"

\* readPublishedAt's value when it returns no error
ReadValue(st, chatID, rssURL) ==
    IF ~st[chatID].exists THEN ZeroTime
    ELSE LET data == st[chatID].publishedAt[rssURL]
         IN  IF data.kind = "absent" THEN ZeroTime
             ELSE IF data.kind # "time" THEN ZeroTime
             ELSE data.t

\* the update done as a Set of the whole document: the other fields are lost
OverwrittenDoc(doc, rssURL, t) ==
    [exists |-> TRUE,
     publishedAt |-> [u \in FeedURLs |-> IF u = rssURL THEN TimeField(t) ELSE NoField]]

\* doc.Update of the nested field publishedAt.<rssURL>
UpdatedDoc(doc, rssURL, t) == [doc EXCEPT !.publishedAt[rssURL] = TimeField(t)]

\* the document created with the timestamp as a top-level field <rssURL>,
\* not under publishedAt
CreatedDocFlat(rssURL, t) ==
    [exists |-> TRUE, publishedAt |-> [u \in FeedURLs |-> NoField]]

\* doc.Set of a whole document holding only publishedAt.<rssURL>
CreatedDoc(rssURL, t) ==
    [exists |-> TRUE,
     publishedAt |-> [u \in FeedURLs |-> IF u = rssURL THEN TimeField(t) ELSE NoField]]

\* converter.ConvertString on success
ConvertString(content) == <<"md", content>>

\* a failed conversion leaves the message without content
ContentDroppedOnError(item, convErr) ==
    IF convErr THEN "" ELSE ConvertString(item.Content)

\* the content of the message: the converted content, or the raw content when
\* the conversion fails
RenderedContent(item, convErr) ==
    IF convErr THEN item.Content ELSE ConvertString(item.Content)

\* fmt.Sprintf("*%s*\n\n%s", item.Title, content)
MessageText(title, content) == <<"*", title, "*", "\n\n", content>>

\* sendToTelegram's error for each outcome of the HTTP exchange
SendResults == {"ok200", "status500", "postErr", "readErr"}
SendError(result) == result # "ok200"

\* ------------------------------------------------------------------ Init

InitDocs ==
    {NoDoc} \cup
    {[exists |-> TRUE, publishedAt |-> [u \in FeedURLs |-> IF u = "u1" THEN f ELSE g]] :
        f \in {NoField, BadField} \cup {TimeField(t) : t \in Times},
        g \in {TimeField(1)}}

OtherDocs == {[exists |-> TRUE, publishedAt |-> [u \in FeedURLs |-> TimeField(1)]]}

Envs == [RSS_FEED_URL : {"", "u1"}, TELEGRAM_BOT_API_TOKEN : {"", "token"},
         TELEGRAM_CHAT_ID : {"", "c1"}]

Init ==
    /\ store \in {[c \in Chats |-> IF c = "c1" THEN d ELSE o] : d \in InitDocs, o \in OtherDocs}
    /\ env \in {[p \in Procs |-> IF p \in SeqProcs THEN e ELSE NoEnv] : e \in Envs}
    /\ pc = [p \in Procs |-> "idle"]
    /\ feed = [p \in Procs |-> << >>]
    /\ publishedAt = [p \in Procs |-> ZeroTime]
    /\ newPublishedAt = [p \in Procs |-> ZeroTime]
    /\ i = [p \in Procs |-> 0]
    /\ ret = [p \in Procs |-> "none"]
    /\ attempts = [p \in Procs |-> << >>]
    /\ failed = [p \in Procs |-> {}]
    /\ calls = [p \in Procs |-> << >>]
    /\ lastSend = [p \in Procs |-> NoSend]
    /\ storeAtStart = [p \in Procs |-> store]
    /\ prev = [p \in Procs |-> NoPrev]
    /\ runs = [p \in Procs |-> 0]
    /\ getCode = [p \in Procs |-> "none"]

\* --------------------------------------------------------------- actions

\* a failed ParseURL whose error is kept but not returned at once
ReturnAndGoOn(p, r) ==
    /\ pc' = [pc EXCEPT ![p] = IF r = "errFetch" THEN "read" ELSE "done"]
    /\ ret' = [ret EXCEPT ![p] = r]

\* the invocation returns: pc, ret
Return(p, r) ==
    /\ pc' = [pc EXCEPT ![p] = "done"]
    /\ ret' = [ret EXCEPT ![p] = r]

\* the previous invocation, as the next one remembers it
Summary(p) ==
    [valid |-> TRUE, feed |-> feed[p], publishedAt |-> publishedAt[p],
     attempts |-> attempts[p], failed |-> failed[p], ret |-> ret[p],
     wrote |-> (ret[p] = "nil" /\ \E k \in DOMAIN calls[p] : calls[p][k] = "write"),
     newPublishedAt |-> newPublishedAt[p]]

\* an instance is triggered only while no other instance runs
TriggeredAlone(p) ==
    /\ pc[p] \in {"idle", "done"}
    /\ \A q \in Procs \ {p} : pc[q] \in {"idle", "done"}

\* an instance takes the next trigger once its last invocation has returned
Triggered(p) == pc[p] \in {"idle", "done"}

\* RSS2Telegram is triggered: the three environment variables are checked
Invoke(p) ==
    /\ Triggered(p)
    /\ runs[p] < MaxRuns
    /\ runs' = [runs EXCEPT ![p] = @ + 1]
    \* prev is kept only for an invocation that is going to parse the feed the
    \* previous one parsed (ParseURL then yields that feed)
    /\ \E sameFeed \in BOOLEAN :
         prev' = [prev EXCEPT ![p] = IF sameFeed /\ pc[p] = "done" THEN Summary(p)
                                     ELSE NoPrev]
    /\ storeAtStart' = [storeAtStart EXCEPT ![p] = store]
    /\ feed' = [feed EXCEPT ![p] = << >>]
    /\ publishedAt' = [publishedAt EXCEPT ![p] = ZeroTime]
    /\ newPublishedAt' = [newPublishedAt EXCEPT ![p] = ZeroTime]
    /\ i' = [i EXCEPT ![p] = 0]
    /\ attempts' = [attempts EXCEPT ![p] = << >>]
    /\ failed' = [failed EXCEPT ![p] = {}]
    /\ calls' = [calls EXCEPT ![p] = << >>]
    /\ lastSend' = [lastSend EXCEPT ![p] = NoSend]
    /\ getCode' = [getCode EXCEPT ![p] = "none"]
    /\ IF ConfigError(env[p]) # "none" THEN Return(p, ConfigError(env[p]))
       ELSE /\ pc' = [pc EXCEPT ![p] = "fetch"]
            /\ ret' = [ret EXCEPT ![p] = "none"]
    /\ UNCHANGED <<store, env>>

\* fp.ParseURL(rssFeedURL)
ParseURL(p) ==
    /\ pc[p] = "fetch"
    /\ calls' = [calls EXCEPT ![p] = Append(@, "fetch")]
    /\ \E ok \in BOOLEAN :
         IF ok
         THEN \E f \in IF prev[p].valid THEN {prev[p].feed} ELSE Feeds :
                /\ feed' = [feed EXCEPT ![p] = f]
                /\ UNCHANGED prev
                /\ pc' = [pc EXCEPT ![p] = "read"]
                /\ UNCHANGED ret
         ELSE /\ Return(p, "errFetch")
              /\ prev' = [prev EXCEPT ![p] = NoPrev]
              /\ UNCHANGED feed
    /\ UNCHANGED <<store, env, publishedAt, newPublishedAt, i, attempts, failed,
                   lastSend, storeAtStart, runs, getCode>>

\* readPublishedAt(ctx, client, tChatID, rssFeedURL)
readPublishedAt(p) ==
    /\ pc[p] = "read"
    /\ calls' = [calls EXCEPT ![p] = Append(@, "read")]
    /\ \E backendErr \in BOOLEAN :
         LET code == GetCode(store, env[p].TELEGRAM_CHAT_ID, backendErr)
         IN  /\ getCode' = [getCode EXCEPT ![p] = code]
             /\ IF ReadFails(code)
                THEN /\ Return(p, "errRead")
                     /\ UNCHANGED <<publishedAt, i>>
                ELSE /\ publishedAt' = [publishedAt EXCEPT ![p] =
                            ReadValue(store, env[p].TELEGRAM_CHAT_ID, env[p].RSS_FEED_URL)]
                     /\ i' = [i EXCEPT ![p] = Len(feed[p])]
                     /\ pc' = [pc EXCEPT ![p] = "loop"]
                     /\ UNCHANGED ret
    /\ UNCHANGED <<store, env, feed, newPublishedAt, attempts, failed, lastSend,
                   storeAtStart, prev, runs>>

\* one iteration of the loop over feed.Items, sendToTelegram included
LoopStep(p) ==
    /\ pc[p] = "loop"
    /\ ~LoopFinished(i[p])
    /\ LET item == feed[p][i[p]]
       IN  IF HasNoPublished(item)
           THEN /\ i' = [i EXCEPT ![p] = NoPublishedContinue(@)]
                /\ UNCHANGED <<newPublishedAt, attempts, failed, calls, lastSend>>
           ELSE IF NotAfterPrevious(item, publishedAt[p])
           THEN /\ i' = [i EXCEPT ![p] = NotAfterContinue(@)]
                /\ UNCHANGED <<newPublishedAt, attempts, failed, calls, lastSend>>
           ELSE \E convErr \in BOOLEAN, result \in SendResults :
                  LET content == RenderedContent(item, convErr)
                  IN  /\ newPublishedAt' = [newPublishedAt EXCEPT ![p] = item.PublishedParsed[1]]
                      /\ attempts' = [attempts EXCEPT ![p] = Append(@, i[p])]
                      /\ calls' = [calls EXCEPT ![p] = Append(@, "send")]
                      /\ lastSend' = [lastSend EXCEPT ![p] =
                             [text |-> MessageText(item.Title, content),
                              chat_id |-> env[p].TELEGRAM_CHAT_ID,
                              convErr |-> convErr,
                              err |-> SendError(result)]]
                      /\ failed' = [failed EXCEPT ![p] =
                             IF SendError(result) THEN @ \cup {i[p]} ELSE @]
                      /\ i' = [i EXCEPT ![p] = AfterSendIndex(@, SendError(result))]
    /\ UNCHANGED <<store, env, pc, feed, publishedAt, ret, storeAtStart, prev, runs,
                   getCode>>

\* the loop is over: write the watermark if one was computed, else return nil
LoopExit(p) ==
    /\ pc[p] = "loop"
    /\ LoopFinished(i[p])
    /\ IF ~IsZero(newPublishedAt[p])
       THEN /\ pc' = [pc EXCEPT ![p] = "update"]
            /\ calls' = [calls EXCEPT ![p] = Append(@, "write")]
            /\ UNCHANGED ret
       ELSE /\ Return(p, "nil")
            /\ UNCHANGED calls
    /\ UNCHANGED <<store, env, feed, publishedAt, newPublishedAt, i, attempts, failed,
                   lastSend, storeAtStart, prev, runs, getCode>>

\* an update that reports an error has been applied all the same
UpdateAppliedOnError(p) ==
    /\ pc[p] = "update"
    /\ LET chatID == env[p].TELEGRAM_CHAT_ID
           rssURL == env[p].RSS_FEED_URL
       IN  \E backendErr \in BOOLEAN :
             IF ~store[chatID].exists /\ ~backendErr
             THEN /\ pc' = [pc EXCEPT ![p] = "set"]
                  /\ UNCHANGED <<ret, store>>
             ELSE /\ store' = [store EXCEPT ![chatID] =
                         IF @.exists THEN UpdatedDoc(@, rssURL, newPublishedAt[p]) ELSE @]
                  /\ Return(p, IF backendErr THEN "errWrite" ELSE "nil")
    /\ UNCHANGED <<env, feed, publishedAt, newPublishedAt, i, attempts, failed, calls,
                   lastSend, storeAtStart, prev, runs, getCode>>

\* writePublishedAt: doc.Update of publishedAt.<rssURL>
Update(p) ==
    /\ pc[p] = "update"
    /\ LET chatID == env[p].TELEGRAM_CHAT_ID
           rssURL == env[p].RSS_FEED_URL
       IN  \E backendErr \in BOOLEAN :
             IF backendErr
             THEN /\ Return(p, "errWrite")
                  /\ UNCHANGED store
             ELSE IF ~store[chatID].exists
             THEN /\ pc' = [pc EXCEPT ![p] = "set"]
                  /\ UNCHANGED <<ret, store>>
             ELSE /\ store' = [store EXCEPT ![chatID] =
                         UpdatedDoc(@, rssURL, newPublishedAt[p])]
                  /\ Return(p, "nil")
    /\ UNCHANGED <<env, feed, publishedAt, newPublishedAt, i, attempts, failed, calls,
                   lastSend, storeAtStart, prev, runs, getCode>>

\* writePublishedAt: doc.Set after Update answered NotFound
Set(p) ==
    /\ pc[p] = "set"
    /\ LET chatID == env[p].TELEGRAM_CHAT_ID
           rssURL == env[p].RSS_FEED_URL
       IN  \E backendErr \in BOOLEAN :
             IF backendErr
             THEN /\ Return(p, "errWrite")
                  /\ UNCHANGED store
             ELSE /\ store' = [store EXCEPT ![chatID] = CreatedDoc(rssURL, newPublishedAt[p])]
                  /\ Return(p, "nil")
    /\ UNCHANGED <<env, feed, publishedAt, newPublishedAt, i, attempts, failed, calls,
                   lastSend, storeAtStart, prev, runs, getCode>>

\* invocations of one instance, one after the other
Next ==
    \E p \in SeqProcs :
        \/ Invoke(p)
        \/ ParseURL(p)
        \/ readPublishedAt(p)
        \/ LoopStep(p)
        \/ LoopExit(p)
        \/ Update(p)
        \/ Set(p)

Spec == Init /\ [][Next]_vars

\* ------------------------------------------- overlapping invocations
\* Two instances, each invoked once, for the same chat; the second watches
\* the same feed URL or another one.  Their steps interleave freely.  The
\* feeds are short and every delivery succeeds: the outcome of a delivery
\* changes neither the attempts nor the write (C7).

ConcFeeds == {f \in Feeds : Len(f) <= MaxConcItems}

ConcDocs ==
    {NoDoc} \cup
    {[exists |-> TRUE, publishedAt |-> [u \in FeedURLs |-> IF u = "u1" THEN f ELSE TimeField(1)]] :
        f \in {NoField, TimeField(1)}}

ConcEnv(u) ==
    [RSS_FEED_URL |-> u, TELEGRAM_BOT_API_TOKEN |-> "token", TELEGRAM_CHAT_ID |-> "c1"]

InitConc ==
    /\ store \in {[c \in Chats |-> IF c = "c1" THEN d ELSE o] : d \in ConcDocs, o \in OtherDocs}
    /\ env \in {[p \in Procs |-> IF p = 1 THEN ConcEnv("u1") ELSE ConcEnv(u)] : u \in FeedURLs}
    /\ pc = [p \in Procs |-> "idle"]
    /\ feed = [p \in Procs |-> << >>]
    /\ publishedAt = [p \in Procs |-> ZeroTime]
    /\ newPublishedAt = [p \in Procs |-> ZeroTime]
    /\ i = [p \in Procs |-> 0]
    /\ ret = [p \in Procs |-> "none"]
    /\ attempts = [p \in Procs |-> << >>]
    /\ failed = [p \in Procs |-> {}]
    /\ calls = [p \in Procs |-> << >>]
    /\ lastSend = [p \in Procs |-> NoSend]
    /\ storeAtStart = [p \in Procs |-> store]
    /\ prev = [p \in Procs |-> NoPrev]
    /\ runs = [p \in Procs |-> 0]
    /\ getCode = [p \in Procs |-> "none"]

\* the one invocation of instance p
ConcInvoke(p) == runs[p] = 0 /\ Invoke(p)

\* fp.ParseURL answering with a short feed
ConcParseURL(p) == ParseURL(p) /\ feed'[p] \in ConcFeeds

\* a loop iteration whose delivery, if any, succeeds
ConcLoopStep(p) == LoopStep(p) /\ failed'[p] = {}

NextConc ==
    \E p \in Procs :
        \/ ConcInvoke(p)
        \/ ConcParseURL(p)
        \/ readPublishedAt(p)
        \/ ConcLoopStep(p)
        \/ LoopExit(p)
        \/ Update(p)
        \/ Set(p)

SpecConc == InitConc /\ [][NextConc]_vars

\* ------------------------------------------------- vocabulary of the claims

HasTs(f, k) == f[k].PublishedParsed # NilTime
Ts(f, k) == f[k].PublishedParsed[1]

\* the watermark a (chat, feed) pair holds in a store; no record: ZeroTime
Stored(st, c, u) ==
    IF st[c].exists /\ st[c].publishedAt[u].kind = "time"
    THEN st[c].publishedAt[u].t ELSE ZeroTime

ConfigOK(p) ==
    /\ env[p].RSS_FEED_URL \in FeedURLs
    /\ env[p].TELEGRAM_BOT_API_TOKEN # ""
    /\ env[p].TELEGRAM_CHAT_ID \in Chats

\* the invocation is past its loop over the items
LoopDone(p) ==
    \/ pc[p] \in {"update", "set"}
    \/ pc[p] = "done" /\ ret[p] \in {"nil", "errWrite"}

Attempted(p) == {attempts[p][k] : k \in DOMAIN attempts[p]}

WriteIssued(p) == \E k \in DOMAIN calls[p] : calls[p][k] = "write"

MaxOf(S) == CHOOSE x \in S : \A y \in S : y <= x

\* ------------------------------------------------------------------ claims

\* C1: an item is attempted iff it has a publish timestamp strictly after the
\* watermark W read at the start of the invocation (no record: the zero
\* time); an item whose timestamp equals W is not attempted.
C1_AttemptedIffAfterWatermark ==
    \A p \in SeqProcs :
        /\ pc[p] \in {"loop", "update", "set"} =>
              publishedAt[p] = Stored(storeAtStart[p], env[p].TELEGRAM_CHAT_ID,
                                      env[p].RSS_FEED_URL)
        /\ \A k \in Attempted(p) :
              HasTs(feed[p], k) /\ Ts(feed[p], k) > publishedAt[p]
        /\ LoopDone(p) =>
              Attempted(p) = {k \in DOMAIN feed[p] :
                                HasTs(feed[p], k) /\ Ts(feed[p], k) > publishedAt[p]}

\* a finished loop that attempted one item and left out an item published
\* exactly at a stored, non-zero watermark
C1_Witness ==
    \E p \in SeqProcs :
        /\ LoopDone(p)
        /\ publishedAt[p] # ZeroTime
        /\ Attempted(p) # {}
        /\ \E k \in DOMAIN feed[p] :
              HasTs(feed[p], k) /\ Ts(feed[p], k) = publishedAt[p] /\ k \notin Attempted(p)

\* C2: the delivery attempts of one invocation happen in non-decreasing
\* publish-timestamp order, whatever the order of the items in the feed.
C2_AttemptsInTimestampOrder ==
    \A p \in SeqProcs :
        \A a, b \in DOMAIN attempts[p] :
            a < b => Ts(feed[p], attempts[p][a]) <= Ts(feed[p], attempts[p][b])

\* C3: the value handed to writePublishedAt is the maximum publish timestamp
\* among the items attempted in the invocation.
C3_WrittenIsMaxAttempted ==
    \A p \in SeqProcs :
        pc[p] \in {"update", "set"} =>
            newPublishedAt[p] = MaxOf({Ts(feed[p], k) : k \in Attempted(p)})

\* C4: after an invocation that wrote its watermark, an invocation on the
\* same feed, all of whose items carry timestamps, attempts nothing and
\* issues no write.
C4_NoRedelivery ==
    \A p \in SeqProcs :
        (/\ pc[p] \in {"read", "loop", "update", "set", "done"}
         /\ prev[p].valid /\ prev[p].wrote
         /\ \A k \in DOMAIN feed[p] : HasTs(feed[p], k))
        => (attempts[p] = << >> /\ ~WriteIssued(p))

\* C5: the stored watermark of the pair never decreases, and a value written
\* is strictly after the value the writing invocation read.
C5_WatermarkNeverDecreases ==
    [][\A p \in SeqProcs :
          ConfigOK(p) =>
            LET c == env[p].TELEGRAM_CHAT_ID
                u == env[p].RSS_FEED_URL
            IN  /\ Stored(store', c, u) >= Stored(store, c, u)
                /\ store' # store =>
                      /\ Stored(store', c, u) = newPublishedAt[p]
                      /\ newPublishedAt[p] > publishedAt[p]
                      /\ Stored(store', c, u) > Stored(store, c, u)]_vars

\* a second invocation has replaced a non-zero watermark by a later one
C5_Witness ==
    \E p \in SeqProcs :
        /\ runs[p] = 2 /\ pc[p] = "done" /\ ret[p] = "nil"
        /\ Stored(storeAtStart[p], env[p].TELEGRAM_CHAT_ID, env[p].RSS_FEED_URL) # ZeroTime
        /\ Stored(store, env[p].TELEGRAM_CHAT_ID, env[p].RSS_FEED_URL)
             > Stored(storeAtStart[p], env[p].TELEGRAM_CHAT_ID, env[p].RSS_FEED_URL)

\* C6: an item without a publish timestamp is never attempted, and the feed
\* with those items removed gives the same sequence of attempts and the same
\* new watermark.
WithoutUntimestamped(f) == SelectSeq(f, LAMBDA it : it.PublishedParsed # NilTime)

C6_UntimestampedItemsHaveNoEffect ==
    \A p \in SeqProcs :
        /\ \A k \in Attempted(p) : HasTs(feed[p], k)
        /\ LoopDone(p) =>
              LET g == WithoutUntimestamped(feed[p])
              IN  /\ Len(attempts[p]) = Len(SentFrom(g, publishedAt[p], Len(g)))
                  /\ \A k \in DOMAIN attempts[p] :
                        feed[p][attempts[p][k]] = SentFrom(g, publishedAt[p], Len(g))[k]
                  /\ newPublishedAt[p] = NewPublishedAtOf(g, publishedAt[p])

\* an untimestamped item was passed over before a later item was attempted
C6_Witness ==
    \E p \in SeqProcs :
        /\ LoopDone(p)
        /\ \E n, k \in DOMAIN feed[p] :
              /\ ~HasTs(feed[p], n)
              /\ k < n
              /\ k \in Attempted(p)

\* the indices of the items after the watermark w, from index k down
RECURSIVE QualifyingDesc(_, _, _)
QualifyingDesc(f, w, k) ==
    IF k = 0 THEN << >>
    ELSE (IF HasTs(f, k) /\ Ts(f, k) > w THEN <<k>> ELSE << >>)
         \o QualifyingDesc(f, w, k - 1)

C8_FailedItemNotRetried ==
    \A p \in SeqProcs :
        (/\ pc[p] \in {"read", "loop", "update", "set", "done"}
         /\ prev[p].valid /\ prev[p].wrote)
        => Attempted(p) \cap prev[p].failed = {}

\* C9: an invocation that ends with a configuration, fetch or watermark-read
\* error has attempted no delivery, issued no write and left the store as it
\* was; a configuration error comes before any fetch or read.
ConfigErrors == {"errFeedURL", "errToken", "errChatID"}

C9_EarlyErrorsHaveNoEffect ==
    \A p \in SeqProcs :
        /\ ret[p] \in ConfigErrors => calls[p] = << >>
        /\ ret[p] = "errFetch" => calls[p] = <<"fetch">>
        /\ ret[p] = "errRead" => calls[p] = <<"fetch", "read">>
        /\ ret[p] \in ConfigErrors \cup {"errFetch", "errRead"} =>
              /\ pc[p] = "done"
              /\ attempts[p] = << >>
              /\ ~WriteIssued(p)
              /\ store = storeAtStart[p]

\* the watermark read failed although the feed held an item after the
\* stored watermark
C9_Witness ==
    \E p \in SeqProcs :
        /\ pc[p] = "done" /\ ret[p] = "errRead"
        /\ \E k \in DOMAIN feed[p] :
              /\ HasTs(feed[p], k)
              /\ Ts(feed[p], k) > Stored(store, env[p].TELEGRAM_CHAT_ID, env[p].RSS_FEED_URL)

\* C10: the write is issued at most once, after every selected item has been
\* attempted; nothing is sent after it; a failed write is what the
\* invocation returns, with the store unchanged and the deliveries made.
Sends(p) == {k \in DOMAIN calls[p] : calls[p][k] = "send"}

C10_WriteOnceAfterAllAttempts ==
    \A p \in SeqProcs :
        /\ \A k \in DOMAIN calls[p] : calls[p][k] = "write" => k = Len(calls[p])
        /\ Cardinality(Sends(p)) = Len(attempts[p])
        /\ pc[p] \in {"update", "set"} => WriteIssued(p)
        /\ store # storeAtStart[p] => WriteIssued(p) /\ pc[p] = "done" /\ ret[p] = "nil"
        /\ WriteIssued(p) =>
              Attempted(p) = {k \in DOMAIN feed[p] :
                                HasTs(feed[p], k) /\ Ts(feed[p], k) > publishedAt[p]}
        /\ ret[p] = "errWrite" =>
              /\ pc[p] = "done"
              /\ WriteIssued(p)
              /\ attempts[p] # << >>

\* a write failed after two deliveries, one of them successful
C10_Witness ==
    \E p \in SeqProcs :
        /\ pc[p] = "done" /\ ret[p] = "errWrite"
        /\ Len(attempts[p]) >= 2
        /\ Attempted(p) \ failed[p] # {}

\* C11: past the loop a write is issued iff at least one item was selected;
\* with no item selected the invocation returns nil and the store is as it
\* was: no write, no record created.
Selected(p) ==
    {k \in DOMAIN feed[p] : HasTs(feed[p], k) /\ Ts(feed[p], k) > publishedAt[p]}

C11_WriteIffSelected ==
    \A p \in SeqProcs :
        LoopDone(p) =>
            /\ WriteIssued(p) <=> Selected(p) # {}
            /\ Selected(p) = {} =>
                  /\ pc[p] = "done" /\ ret[p] = "nil"
                  /\ calls[p] = <<"fetch", "read">>
                  /\ store = storeAtStart[p]

\* a feed with items, none of them selected, and still no document
C11_Witness ==
    \E p \in SeqProcs :
        /\ pc[p] = "done" /\ ret[p] = "nil"
        /\ feed[p] # << >>
        /\ \E k \in DOMAIN feed[p] : HasTs(feed[p], k)
        /\ ~WriteIssued(p)
        /\ ~store[env[p].TELEGRAM_CHAT_ID].exists

C13_ReadDefaultsToZero ==
    \A p \in SeqProcs :
        /\ ret[p] = "errRead" <=> getCode[p] = "Unavailable"
        /\ getCode[p] \in {"OK", "NotFound"} =>
              LET d == storeAtStart[p][env[p].TELEGRAM_CHAT_ID]
                  e == d.publishedAt[env[p].RSS_FEED_URL]
              IN  /\ getCode[p] = "NotFound" <=> ~d.exists
                  /\ ~d.exists => publishedAt[p] = ZeroTime
                  /\ (d.exists /\ e.kind = "absent") => publishedAt[p] = ZeroTime
                  /\ (d.exists /\ e.kind = "other") => publishedAt[p] = ZeroTime
                  /\ (d.exists /\ e.kind = "time") => publishedAt[p] = e.t
        /\ (pc[p] = "loop" \/ ret[p] = "errRead") => store = storeAtStart[p]

\* a read that found no chat document and went on with the zero time
C13_Witness ==
    \E p \in SeqProcs :
        /\ pc[p] = "loop"
        /\ getCode[p] = "NotFound"
        /\ publishedAt[p] = ZeroTime
        /\ ret[p] = "none"

\* C14: after a write of t that returned no error, readPublishedAt on the
\* same pair returns t, whether the document or the entry existed before or
\* not, and the same write once more leaves the store as it is.
C14_WriteThenReadRoundTrip ==
    \A p \in SeqProcs :
        /\ (pc[p] = "done" /\ ret[p] = "nil" /\ WriteIssued(p)) =>
              LET c == env[p].TELEGRAM_CHAT_ID
                  u == env[p].RSS_FEED_URL
              IN  /\ ~ReadFails(GetCode(store, c, FALSE))
                  /\ ReadValue(store, c, u) = newPublishedAt[p]
                  /\ GetCode(store, c, FALSE) = "OK"
                  /\ UpdatedDoc(store[c], u, newPublishedAt[p]) = store[c]
        /\ (prev[p].valid /\ prev[p].wrote /\ getCode[p] \in {"OK", "NotFound"}) =>
              publishedAt[p] = prev[p].newPublishedAt

\* the next invocation has read back the watermark that the previous one
\* wrote into a document it had to create
C14_Witness ==
    \E p \in SeqProcs :
        /\ prev[p].valid /\ prev[p].wrote
        /\ pc[p] = "loop"
        /\ publishedAt[p] = prev[p].newPublishedAt
        /\ \A u \in FeedURLs :
              u # env[p].RSS_FEED_URL =>
                  store[env[p].TELEGRAM_CHAT_ID].publishedAt[u].kind = "absent"

\* C15: nothing blocks or serialises an invocation that overlaps another one
\* for the same pair: whatever the other instance is doing, the next step of
\* an invocation can be taken, so both can read the same watermark, attempt
\* the same item and write.
C15_NoInvocationBlocksAnother ==
    \A p \in Procs :
        /\ (pc[p] = "idle" /\ runs[p] = 0) => ENABLED ConcInvoke(p)
        /\ pc[p] = "fetch" => ENABLED ConcParseURL(p)
        /\ pc[p] = "read" => ENABLED readPublishedAt(p)
        /\ pc[p] = "loop" => ENABLED (ConcLoopStep(p) \/ LoopExit(p))
        /\ pc[p] = "update" => ENABLED Update(p)
        /\ pc[p] = "set" => ENABLED Set(p)

\* two invocations for the same pair have read the same watermark, attempted
\* the same item of the same feed and written their watermark
C15_Witness ==
    /\ env[1] = env[2]
    /\ \A p \in Procs : pc[p] = "done" /\ ret[p] = "nil" /\ WriteIssued(p)
    /\ publishedAt[1] = publishedAt[2]
    /\ feed[1] = feed[2]
    /\ Attempted(1) \cap Attempted(2) # {}

\* C16: when the conversion of an item's content fails, the delivery is still
\* attempted, with the bold title, a blank line and the raw content; the
\* invocation is not aborted, and the attempted items and the watermark are
\* those of an invocation whose conversions all succeed.
C16_RenderFailureFallsBackToRawContent ==
    \A p \in SeqProcs :
        lastSend[p].convErr =>
            /\ attempts[p] # << >>
            /\ LET item == feed[p][attempts[p][Len(attempts[p])]]
               IN  /\ lastSend[p].text = <<"*", item.Title, "*", "\n\n", item.Content>>
                   /\ newPublishedAt[p] = item.PublishedParsed[1]
            /\ lastSend[p].chat_id = env[p].TELEGRAM_CHAT_ID
            /\ Cardinality(Sends(p)) = Len(attempts[p])
            /\ pc[p] \in {"loop", "update", "set", "done"}
            /\ pc[p] = "done" => ret[p] \in {"nil", "errWrite"}
            /\ LoopDone(p) =>
                   /\ Attempted(p) = Selected(p)
                   /\ Len(attempts[p]) = Cardinality(Selected(p))
                   /\ newPublishedAt[p] = NewPublishedAtOf(feed[p], publishedAt[p])

\* the last conversion failed, the message was accepted, the watermark written
C16_Witness ==
    /\ lastSend[1].convErr
    /\ ~lastSend[1].err
    /\ pc[1] = "done"
    /\ ret[1] = "nil"
    /\ WriteIssued(1)
    /\ Stored(store, env[1].TELEGRAM_CHAT_ID, env[1].RSS_FEED_URL) = newPublishedAt[1]

\* the number of steps an invocation can still take, at most
Rank(p) ==
    CASE pc[p] = "fetch" -> MaxItems + 5
      [] pc[p] = "read" -> MaxItems + 4
      [] pc[p] = "loop" -> i[p] + 3
      [] pc[p] = "update" -> 2
      [] pc[p] = "set" -> 1
      [] OTHER -> 0

Running(p) == pc[p] \in {"fetch", "read", "loop", "update", "set"}

\* C17: an invocation on a finite feed reaches a terminal state provided its
\* external calls return: while it runs its next step can always be taken, and
\* every step brings it closer to its return.  It attempts each selected item
\* exactly once: no item twice, and after the loop the attempts are the
\* selected items.
C17_TerminatesAttemptingEachSelectedItemOnce ==
    /\ [](\A p \in SeqProcs :
            /\ pc[p] = "fetch" => ENABLED ParseURL(p)
            /\ pc[p] = "read" => ENABLED readPublishedAt(p)
            /\ pc[p] = "loop" => ENABLED (LoopStep(p) \/ LoopExit(p))
            /\ pc[p] = "update" => ENABLED Update(p)
            /\ pc[p] = "set" => ENABLED Set(p)
            /\ Len(attempts[p]) = Cardinality(Attempted(p))
            /\ Attempted(p) \subseteq Selected(p)
            /\ LoopDone(p) =>
                   /\ Attempted(p) = Selected(p)
                   /\ Len(attempts[p]) = Cardinality(Selected(p)))
    /\ [][\A p \in SeqProcs :
            Running(p) => /\ Rank(p)' < Rank(p)
                          /\ Rank(p)' = 0 => pc'[p] = "done"]_vars

\* an invocation has returned after two attempts, one of which failed
C17_Witness ==
    /\ pc[1] = "done"
    /\ ret[1] = "nil"
    /\ Len(attempts[1]) = 2
    /\ failed[1] # {}

\* C18: when the write fails, the stored watermark keeps the value the
\* invocation read, and the next invocation that parses the same feed attempts
\* exactly the same items in the same order, the delivered ones included.
C18_FailedWriteRepeatsTheAttempts ==
    \A p \in SeqProcs :
        /\ (pc[p] = "done" /\ ret[p] = "errWrite") =>
               /\ store = storeAtStart[p]
               /\ ReadValue(store, env[p].TELEGRAM_CHAT_ID, env[p].RSS_FEED_URL)
                      = publishedAt[p]
        /\ (prev[p].valid /\ prev[p].ret = "errWrite") =>
               /\ (pc[p] = "loop" \/ LoopDone(p)) => publishedAt[p] = prev[p].publishedAt
               /\ LoopDone(p) =>
                      /\ attempts[p] = prev[p].attempts
                      /\ attempts[p] # << >>

\* an item delivered by the invocation whose write failed has been delivered
\* again by the next one
C18_Witness ==
    /\ prev[1].valid
    /\ prev[1].ret = "errWrite"
    /\ LoopDone(1)
    /\ \E k \in Attempted(1) : k \notin prev[1].failed /\ k \notin failed[1]

\* C19: two invocations for different feed URLs under one chat both make
\* their first write while the chat document does not exist; however their
\* update and create steps interleave, after both writes have returned without
\* error the store holds the watermark of both feeds.
C19_FirstWritesKeepBothWatermarks ==
    LET c == env[1].TELEGRAM_CHAT_ID
    IN  ( /\ env[1].RSS_FEED_URL # env[2].RSS_FEED_URL
          /\ env[2].TELEGRAM_CHAT_ID = c
          /\ \A p \in Procs :
                 /\ ~storeAtStart[p][c].exists
                 /\ pc[p] = "done" /\ ret[p] = "nil" /\ WriteIssued(p) )
        => \A p \in Procs :
              Stored(store, c, env[p].RSS_FEED_URL) = newPublishedAt[p]

\* C20 as stated: when invocations for the same (chat, feed) pair overlap,
\* each on the feed snapshot it fetched itself, the stored watermark of the
\* pair never decreases.
C20_WatermarkNeverDecreasesUnderOverlap ==
    [][env[1] = env[2] =>
          Stored(store', env[1].TELEGRAM_CHAT_ID, env[1].RSS_FEED_URL)
              >= Stored(store, env[1].TELEGRAM_CHAT_ID, env[1].RSS_FEED_URL)]_vars

\* C20 amended: when invocations overlap, each on its own snapshot, every
\* watermark an invocation writes is strictly after the watermark that
\* invocation itself read, and is what the store holds for the pair when the
\* write returns; it is not compared with what the other has written since.
C20_WrittenIsAfterOwnRead ==
    [][\A p \in Procs :
          (pc[p] \in {"update", "set"} /\ pc'[p] = "done" /\ ret'[p] = "nil") =>
              /\ Stored(store', env[p].TELEGRAM_CHAT_ID, env[p].RSS_FEED_URL)
                     = newPublishedAt[p]
              /\ newPublishedAt[p] > publishedAt[p]]_vars

\* both invocations of the same pair have written, and the store holds the
\* watermark of the older snapshot
C20_Witness ==
    /\ env[1] = env[2]
    /\ \A p \in Procs : pc[p] = "done" /\ ret[p] = "nil" /\ WriteIssued(p)
    /\ \E p, q \in Procs :
          /\ newPublishedAt[p] < newPublishedAt[q]
          /\ Stored(store, env[1].TELEGRAM_CHAT_ID, env[1].RSS_FEED_URL) = newPublishedAt[p]

====
